---- MODULE Spec2Model ----
(***************************************************************************)
(* Model of the mount layer's symlink operations (weed/mount/              *)
(* weedfs_symlink.go) and of the filer Entry model (weed/filer/entry.go).  *)
(*                                                                         *)
(* Each kernel request is a process that runs one WFS.Symlink or           *)
(* WFS.Readlink call; a call is split into steps at the points where it    *)
(* touches shared state (limiter, inode table, remote filer, metadata      *)
(* cache), so that calls interleave as goroutines do.                      *)
(***************************************************************************)
EXTENDS Integers, Sequences, FiniteSets, TLC

(***************************************************************************)
(* Bounds of the model.                                                    *)
(***************************************************************************)
NumProcs == 2
MaxCalls == 3
LimiterCapacity == 2

Procs == 1..NumProcs

(***************************************************************************)
(* Program constants.                                                      *)
(***************************************************************************)
\* an os.FileMode is the set of the positions of its bits that are set
ModeSymlink == {27}
ModeDir == {31}
ModePerm == 0..8
Uint32Bits == 0..31

\* fuse.Status values
OK == "OK"
ENOSPC == "ENOSPC"
EINVAL == "EINVAL"
EIO == "EIO"
ENOENT == "ENOENT"

\* the reserved keys of Entry.Extended
XATTR_PREFIX == "xattr-"
Size_Quota_Key == "quota-size"
Size_Key == "size"
Inode_Quota_Key == "quota-inode"
Inode_Key == "inode"
QuotaErrorPrefix == "QuotaError:"

(***************************************************************************)
(* Inputs of the calls.                                                    *)
(***************************************************************************)
RootInode == 1
DirInode == 2
StaleInode == 3
FirstFreeInode == 4

RootPath == << >>
DirPath == <<"dir">>

\* the (parent inode, name, target) of the Symlink calls: two targets for one
\* path, a second path, an invalid name under a live and under a stale
\* parent, a stale parent
SymlinkInputs ==
    { <<DirInode, "link", "/dir/target">>,
      <<DirInode, "link", "/other">>,
      <<RootInode, "link", "/dir/target">>,
      <<DirInode, "", "/dir/target">>,
      <<StaleInode, "", "/dir/target">>,
      <<StaleInode, "link", "/dir/target">> }

\* the outcomes of one remote CreateEntry round trip
RemoteOutcomes == {"ok", "transport", QuotaErrorPrefix, "notfound"}

NoInode == 0
NoBytes == "<nil>"

VARIABLES
    pc,           \* pc[p]: position of request p in its call
    op,           \* op[p]: the arguments of the call of request p
    ncalls,       \* number of calls the kernel has made so far
    gate,         \* gate[p]: how WaitN ended for p's call
    ret,          \* ret[p]: what the call returned
    hist,         \* hist[p]: what the call did so far (observation only)
    held,         \* limiter capacity reserved and not released
    waitQ,        \* limiter waiters, longest waiting first
    IsOverQuota,  \* wfs.IsOverQuota
    inodeToPath,  \* wfs.inodeToPath: inode -> [path, refs]
    nextInode,    \* next inode number to allocate
    metaCache,    \* wfs.metaCache: path -> Entry
    filerStore,   \* the entries the remote filer holds: path -> Entry
    entry,        \* the quota root's Entry (weed/filer Entry under test)
    last,         \* the last Entry operation and its result
    heap,         \* backing stores of slices and maps, by address
    ents,         \* an Entry and its ShallowClone, slices and maps as addresses
    mut,          \* the last step on ents or heap
    run           \* RunMount: position, loop counter, err, cipher, effects

mountVars == <<pc, op, ncalls, gate, ret, hist, held, waitQ,
               IsOverQuota, inodeToPath, nextInode, metaCache, filerStore>>
entryVars == <<entry, last>>
cloneVars == <<heap, ents, mut>>
runVars == <<run>>
vars == <<pc, op, ncalls, gate, ret, hist, held, waitQ,
          IsOverQuota, inodeToPath, nextInode, metaCache, filerStore,
          entry, last, heap, ents, mut, run>>

(***************************************************************************)
(* util.FullPath: a path is the sequence of its names, "/" the empty one.  *)
(***************************************************************************)
Child(dir, name) == Append(dir, name)

NewFullPath(dir, name) == Child(dir, name)

PathName(path) == IF Len(path) = 0 THEN "" ELSE path[Len(path)]

(***************************************************************************)
(* filer.Attr and filer.Entry.  Wall-clock times, uid and gid are carried  *)
(* as zero values: no operation modelled here reads them.                  *)
(***************************************************************************)
NilExtended == [nil |-> TRUE, m |-> << >>]

NilRemote == "nil"

ZeroAttr ==
    [Mtime |-> 0, Crtime |-> 0, Mode |-> {}, Uid |-> 0, Gid |-> 0,
     Mime |-> "", TtlSec |-> 0, UserName |-> "", GroupNames |-> << >>,
     SymlinkTarget |-> "", Md5 |-> << >>, FileSize |-> 0, Rdev |-> 0,
     Inode |-> 0]

ZeroEntry ==
    [FullPath |-> RootPath, Attr |-> ZeroAttr, Extended |-> NilExtended,
     Chunks |-> << >>, HardLinkId |-> << >>, HardLinkCounter |-> 0,
     Content |-> << >>, Remote |-> NilRemote, Quota |-> 0]

IsDirectory(attr) == attr.Mode \cap ModeDir # {}

IsSymlinkMode(mode) == mode \cap ModeSymlink # {}

\* filer_pb.FuseAttributes -> Attr
PbToEntryAttribute(attributes) ==
    [ZeroAttr EXCEPT !.Mtime = attributes.Mtime,
                     !.Crtime = attributes.Crtime,
                     !.Mode = attributes.FileMode \cap Uint32Bits,
                     !.Uid = attributes.Uid,
                     !.Gid = attributes.Gid,
                     !.SymlinkTarget = attributes.SymlinkTarget,
                     !.FileSize = attributes.FileSize]

FromPbEntryToExistingEntry(message, fsEntry) ==
    [fsEntry EXCEPT !.Attr = PbToEntryAttribute(message.Attributes),
                    !.Chunks = message.Chunks,
                    !.Extended = message.Extended,
                    !.HardLinkId = message.HardLinkId,
                    !.HardLinkCounter = message.HardLinkCounter,
                    !.Content = message.Content,
                    !.Remote = message.RemoteEntry,
                    !.Quota = message.Quota]

FromPbEntry(dir, message) ==
    FromPbEntryToExistingEntry(message,
        [ZeroEntry EXCEPT !.FullPath = NewFullPath(dir, message.Name)])

DirEntry(path) ==
    [ZeroEntry EXCEPT !.FullPath = path, !.Attr.Mode = ModeDir \cup ModePerm]

(***************************************************************************)
(* The byte strings stored under the reserved keys.  A text is             *)
(*   fmt "B"   : "<num> B"                                                 *)
(*   fmt "iB"  : "<num/100 with two decimals> <K,M,G,..>iB", exp the unit  *)
(*   fmt "dec" : "<num>" in decimal                                        *)
(*   fmt "decbig" : a decimal above the largest int64                      *)
(*   fmt "junk" : text that is no number;  fmt "empty" : no bytes          *)
(* A 64-bit result is written Wide(k, n), the number k * 2^63 + n, so that *)
(* the values near 2^63 and 2^64 can be told from the small ones.          *)
(***************************************************************************)
Wide(k, n) == [p63 |-> k, n |-> n]

U64(n) == Wide(0, n)

\* uint64(b) of an int b: a negative b wraps to 2^64 + b
ToUint64(w) == IF w.p63 = 0 /\ w.n < 0 THEN Wide(2, w.n) ELSE w

Text(fmt, num, exp) == [fmt |-> fmt, num |-> num, exp |-> exp]

EmptyText == Text("empty", 0, 0)

ByteUnit == 1024

RECURSIVE UnitDiv(_, _)
\* the loop of BytesToHumanReadable: the divisor and exponent for n = b/unit
UnitDiv(n, de) ==
    IF n >= ByteUnit
    THEN UnitDiv(n \div ByteUnit, [div |-> de.div * ByteUnit, exp |-> de.exp + 1])
    ELSE de

\* "%.2f" of b/div in hundredths: round to nearest, ties to even
Hundredths(b, div) ==
    LET q == (b * 100) \div div
        r == (b * 100) % div
    IN IF 2 * r > div \/ (2 * r = div /\ q % 2 = 1) THEN q + 1 ELSE q

\* util.BytesToHumanReadable
BytesToHumanReadable(b) ==
    IF b < ByteUnit
    THEN Text("B", b, 0)
    ELSE LET de == UnitDiv(b \div ByteUnit, [div |-> ByteUnit, exp |-> 0])
         IN Text("iB", Hundredths(b, de.div), de.exp)

RECURSIVE Pow(_, _)
Pow(x, n) == IF n = 0 THEN 1 ELSE x * Pow(x, n - 1)

\* util.ParseBytes: [ok, value]
ParseBytes(text) ==
    IF text.fmt = "B" THEN [ok |-> TRUE, value |-> text.num]
    ELSE IF text.fmt = "iB"
    THEN [ok |-> TRUE,
          value |-> (text.num * Pow(ByteUnit, text.exp + 1)) \div 100]
    ELSE IF text.fmt = "dec" /\ text.num >= 0
    THEN [ok |-> TRUE, value |-> text.num]
    ELSE [ok |-> FALSE, value |-> 0]

\* fmt.Sprintf("%d", b)
SprintfD(b) == Text("dec", b, 0)

\* strconv.Atoi with the error dropped: the value of a decimal, the largest
\* int for a decimal out of range, 0 for a syntax error
Atoi(text) ==
    IF text.fmt = "dec" THEN Wide(0, text.num)
    ELSE IF text.fmt = "decbig" THEN Wide(1, -1)
    ELSE Wide(0, 0)

(***************************************************************************)
(* Entry.Extended and the quota accessors of weed/filer/entry.go.          *)
(***************************************************************************)
\* val := entry.Extended[key]
ExtendedGet(e, key) ==
    IF ~e.Extended.nil /\ key \in DOMAIN e.Extended.m
    THEN e.Extended.m[key] ELSE EmptyText

\* variant: the map is made anew on every store
ExtendedPut_Fresh(e, key, text) ==
    [e EXCEPT !.Extended = [nil |-> FALSE, m |-> [k \in {key} |-> text]]]

\* the lazy make(map) and the store of one key
ExtendedPut(e, key, text) ==
    LET m == IF e.Extended.nil THEN << >> ELSE e.Extended.m
    IN [e EXCEPT !.Extended =
          [nil |-> FALSE,
           m |-> [k \in DOMAIN m \cup {key} |->
                    IF k = key THEN text ELSE m[k]]]]

Clamp(b) == IF b < 0 THEN 0 ELSE b

GetXAttrSize(e) ==
    LET val == ExtendedGet(e, XATTR_PREFIX \o Size_Key)
    IN IF val.fmt = "empty" THEN U64(0)
       ELSE IF ~ParseBytes(val).ok THEN U64(0)
       ELSE U64(ParseBytes(val).value)

SetXAttrSize(e, b) ==
    ExtendedPut(e, XATTR_PREFIX \o Size_Key, BytesToHumanReadable(Clamp(b)))

SetXAttrSizeQuota(e, b) ==
    ExtendedPut(e, XATTR_PREFIX \o Size_Quota_Key,
                BytesToHumanReadable(Clamp(b)))

GetXAttrInodeCount(e) ==
    LET val == ExtendedGet(e, XATTR_PREFIX \o Inode_Key)
    IN IF val.fmt = "empty" THEN U64(0) ELSE ToUint64(Atoi(val))

SetXAttrInodeCount(e, b) ==
    ExtendedPut(e, XATTR_PREFIX \o Inode_Key, SprintfD(Clamp(b)))

SetXAttrInodeCountQuota(e, b) ==
    ExtendedPut(e, XATTR_PREFIX \o Inode_Quota_Key, SprintfD(Clamp(b)))

GetXAttrSizeQuota(e) ==
    LET val == ExtendedGet(e, XATTR_PREFIX \o Size_Quota_Key)
    IN IF val.fmt = "empty" THEN U64(0)
       ELSE IF ~ParseBytes(val).ok THEN U64(0)
       ELSE U64(ParseBytes(val).value)

GetXAttrInodeQuota(e) ==
    LET val == ExtendedGet(e, XATTR_PREFIX \o Inode_Quota_Key)
    IN IF val.fmt = "empty" THEN U64(0) ELSE ToUint64(Atoi(val))

(***************************************************************************)
(* The collaborators of WFS.Symlink and WFS.Readlink.                      *)
(***************************************************************************)
\* checkName: the status for a name
checkName(name) == IF name = "" THEN EINVAL ELSE OK

\* InodeToPath.GetPath
HasPath(table, inode) == inode \in DOMAIN table

GetPathCode(table, inode) == IF HasPath(table, inode) THEN OK ELSE ENOENT

\* InodeToPath.Lookup with createIfMissing: the inode of a path
InodeOf(table, path) == CHOOSE i \in DOMAIN table : table[i].path = path

IsMapped(table, path) == \E i \in DOMAIN table : table[i].path = path

LookupInode(table, next, path) ==
    IF IsMapped(table, path) THEN InodeOf(table, path) ELSE next

LookupTable(table, next, path) ==
    IF IsMapped(table, path)
    THEN [table EXCEPT ![InodeOf(table, path)].refs = @ + 1]
    ELSE [i \in DOMAIN table \cup {next} |->
            IF i = next THEN [path |-> path, refs |-> 1] ELSE table[i]]

\* MetaCache.InsertEntry
InsertEntry(cache, e) ==
    [q \in DOMAIN cache \cup {e.FullPath} |->
        IF q = e.FullPath THEN e ELSE cache[q]]

(***************************************************************************)
(* WFS.Symlink, lines 33-48: the CreateEntryRequest.                       *)
(***************************************************************************)
SymlinkFileMode == ModePerm \cup ModeSymlink

\* variant: the mode lacks os.ModeSymlink
SymlinkRequestEntry_NoModeBit(name, target) ==
    [Name |-> name, IsDirectory |-> FALSE,
     Attributes |-> [Mtime |-> 0, Crtime |-> 0,
                     FileMode |-> ModePerm \cap Uint32Bits,
                     Uid |-> 0, Gid |-> 0, FileSize |-> 0,
                     SymlinkTarget |-> target],
     Chunks |-> << >>, Extended |-> NilExtended, HardLinkId |-> << >>,
     HardLinkCounter |-> 0, Content |-> << >>, RemoteEntry |-> NilRemote,
     Quota |-> 0]

SymlinkRequestEntry(name, target) ==
    [Name |-> name, IsDirectory |-> FALSE,
     Attributes |-> [Mtime |-> 0, Crtime |-> 0,
                     FileMode |-> SymlinkFileMode \cap Uint32Bits,
                     Uid |-> 0, Gid |-> 0, FileSize |-> 0,
                     SymlinkTarget |-> target],
     Chunks |-> << >>, Extended |-> NilExtended, HardLinkId |-> << >>,
     HardLinkCounter |-> 0, Content |-> << >>, RemoteEntry |-> NilRemote,
     Quota |-> 0]

\* variant: a transport failure is swallowed
SymlinkErrStatus_Swallow(outcome) ==
    IF outcome \notin {"ok", "transport"} THEN EIO ELSE OK

\* lines 63-66: the status for the result of WithFilerClient
SymlinkErrStatus(outcome) == IF outcome # "ok" THEN EIO ELSE OK

(***************************************************************************)
(* Per-call bookkeeping.                                                   *)
(***************************************************************************)
NoOp == [kind |-> "none", node |-> NoInode, name |-> "", target |-> "",
         dir |-> RootPath, path |-> RootPath]

NoRet == [code |-> "none", inode |-> NoInode, out |-> NoBytes]

\* created: CreateEntry round trips issued; failed: the outcome of the last
\* one; inserted, looked: the call did InsertEntry, Lookup; tableRead,
\* cacheRead: it read the inode table, the cache; overQuota, inodes0: the flag
\* and the quota root's inode counter it saw at the quota check; overwritten:
\* another call inserted at the same path after this call's insert.
NoHist == [created |-> 0, failed |-> "none", inserted |-> FALSE,
           looked |-> FALSE, tableRead |-> FALSE, cacheRead |-> FALSE,
           overQuota |-> FALSE, inodes0 |-> 0, overwritten |-> FALSE]

InitMount ==
    /\ pc = [p \in Procs |-> "idle"]
    /\ op = [p \in Procs |-> NoOp]
    /\ ncalls = 0
    /\ gate = [p \in Procs |-> "none"]
    /\ ret = [p \in Procs |-> NoRet]
    /\ hist = [p \in Procs |-> NoHist]
    /\ held = 0
    /\ waitQ = << >>
    /\ IsOverQuota \in BOOLEAN
    /\ inodeToPath = (RootInode :> [path |-> RootPath, refs |-> 1])
                     @@ (DirInode :> [path |-> DirPath, refs |-> 1])
    /\ nextInode = FirstFreeInode
    /\ metaCache = (RootPath :> DirEntry(RootPath))
    /\ filerStore = (RootPath :> DirEntry(RootPath))
                    @@ (DirPath :> DirEntry(DirPath))

InitEntryIdle ==
    /\ entry = ZeroEntry
    /\ last = [call |-> "none", arg |-> 0, result |-> 0]

NoMut == [kind |-> "none", who |-> "orig", field |-> ""]

InitCloneIdle ==
    /\ heap = << >>
    /\ ents = [orig |-> ZeroEntry, clone |-> ZeroEntry, cloned |-> FALSE]
    /\ mut = NoMut

\* RunMount before the connection loop
NoRun ==
    [pc |-> "idle", i |-> 0, err |-> FALSE, cipher |-> FALSE, attempts |-> 0,
     firstOk |-> 0, unmounted |-> FALSE, served |-> FALSE, result |-> "none"]

InitRunIdle == run = NoRun

Init == InitMount /\ InitEntryIdle /\ InitCloneIdle /\ InitRunIdle

(***************************************************************************)
(* A kernel request arrives: the call starts at the limiter.               *)
(***************************************************************************)
CallSymlink(p) ==
    /\ pc[p] = "idle"
    /\ ncalls < MaxCalls
    /\ \E in \in SymlinkInputs :
          op' = [op EXCEPT ![p] = [kind |-> "Symlink", node |-> in[1],
                                   name |-> in[2], target |-> in[3],
                                   dir |-> RootPath, path |-> RootPath]]
    /\ pc' = [pc EXCEPT ![p] = "s_wait"]
    /\ ncalls' = ncalls + 1
    /\ waitQ' = Append(waitQ, p)
    /\ UNCHANGED <<gate, ret, hist, held, IsOverQuota, inodeToPath,
                   nextInode, metaCache, filerStore, entryVars, cloneVars, runVars>>

CallReadlink(p) ==
    /\ pc[p] = "idle"
    /\ ncalls < MaxCalls
    /\ \E node \in (DOMAIN inodeToPath) \cup {StaleInode} :
          op' = [op EXCEPT ![p] = [kind |-> "Readlink", node |-> node,
                                   name |-> "", target |-> "",
                                   dir |-> RootPath, path |-> RootPath]]
    /\ pc' = [pc EXCEPT ![p] = "r_wait"]
    /\ ncalls' = ncalls + 1
    /\ waitQ' = Append(waitQ, p)
    /\ UNCHANGED <<gate, ret, hist, held, IsOverQuota, inodeToPath,
                   nextInode, metaCache, filerStore, entryVars, cloneVars, runVars>>

(***************************************************************************)
(* wfs.concurrentOpLimit.WaitN(util.MyContext{cancel}, 1): lines 18, 76.   *)
(* WaitAdmitted: capacity is reserved for the longest waiter.              *)
(* WaitCancelled: the cancel channel of the call is closed while it waits  *)
(* and WaitN fails without reserving.  The result of WaitN is dropped, so  *)
(* the call goes on either way.                                            *)
(***************************************************************************)
AfterWait(p) == IF pc[p] = "s_wait" THEN "s_check" ELSE "r_getpath"

RemoveWaiter(q, p) == SelectSeq(q, LAMBDA x : x # p)

WaitAdmitted(p) ==
    /\ pc[p] \in {"s_wait", "r_wait"}
    /\ Len(waitQ) > 0 /\ Head(waitQ) = p
    /\ held + 1 <= LimiterCapacity
    /\ held' = held + 1
    /\ waitQ' = Tail(waitQ)
    /\ gate' = [gate EXCEPT ![p] = "admitted"]
    /\ pc' = [pc EXCEPT ![p] = AfterWait(p)]
    /\ UNCHANGED <<op, ncalls, ret, hist, IsOverQuota, inodeToPath,
                   nextInode, metaCache, filerStore, entryVars, cloneVars, runVars>>

WaitCancelled(p) ==
    /\ pc[p] \in {"s_wait", "r_wait"}
    /\ waitQ' = RemoveWaiter(waitQ, p)
    /\ gate' = [gate EXCEPT ![p] = "cancelled"]
    /\ pc' = [pc EXCEPT ![p] = AfterWait(p)]
    /\ UNCHANGED <<op, ncalls, ret, hist, held, IsOverQuota,
                   inodeToPath, nextInode, metaCache, filerStore, entryVars, cloneVars, runVars>>

(***************************************************************************)
(* WFS.Symlink after the limiter.                                          *)
(***************************************************************************)
\* the inode counter of the quota root, an extended attribute of the root's
\* Entry at the filer
QuotaInodeCount == GetXAttrInodeCount(filerStore[RootPath]).n

\* variant: the quota flag is not consulted
SymlinkCheckStatus_NoQuota(overQuota, name, table, node) ==
    IF checkName(name) # OK THEN checkName(name)
    ELSE GetPathCode(table, node)

\* variant: the name is not checked
SymlinkCheckStatus_NoName(overQuota, name, table, node) ==
    IF overQuota THEN ENOSPC
    ELSE GetPathCode(table, node)

\* lines 20-30: the status of the local checks, OK when the call goes on
SymlinkCheckStatus(overQuota, name, table, node) ==
    IF overQuota THEN ENOSPC
    ELSE IF checkName(name) # OK THEN checkName(name)
    ELSE GetPathCode(table, node)

\* whether the local checks got as far as wfs.inodeToPath.GetPath
SymlinkReadsTable(overQuota, name) == ~overQuota /\ checkName(name) = OK

SymlinkCheck(p) ==
    /\ pc[p] = "s_check"
    /\ LET code == SymlinkCheckStatus(IsOverQuota, op[p].name, inodeToPath,
                                      op[p].node)
           read == SymlinkReadsTable(IsOverQuota, op[p].name)
       IN /\ hist' = [hist EXCEPT ![p].overQuota = IsOverQuota,
                                  ![p].inodes0 = QuotaInodeCount,
                                  ![p].tableRead = read]
          /\ IF code # OK
             THEN /\ ret' = [ret EXCEPT ![p].code = code]
                  /\ pc' = [pc EXCEPT ![p] = "done"]
                  /\ op' = op
             ELSE /\ op' = [op EXCEPT
                       ![p].dir = inodeToPath[op[p].node].path,
                       ![p].path = Child(inodeToPath[op[p].node].path,
                                         op[p].name)]
                  /\ pc' = [pc EXCEPT ![p] = "s_create"]
                  /\ ret' = ret
    /\ UNCHANGED <<ncalls, gate, held, waitQ, IsOverQuota,
                   inodeToPath, nextInode, metaCache, filerStore, entryVars, cloneVars, runVars>>

\* lines 50-57 and 63-66: one filer_pb.CreateEntry round trip
SymlinkCreateEntry(p) ==
    /\ pc[p] = "s_create"
    /\ \E outcome \in RemoteOutcomes :
          /\ hist' = [hist EXCEPT ![p].created = @ + 1,
                                  ![p].failed = outcome]
          /\ IF SymlinkErrStatus(outcome) # OK
             THEN /\ ret' = [ret EXCEPT ![p].code = SymlinkErrStatus(outcome)]
                  /\ pc' = [pc EXCEPT ![p] = "done"]
                  /\ filerStore' = filerStore
             ELSE /\ filerStore' = InsertEntry(filerStore,
                        FromPbEntry(op[p].dir,
                            SymlinkRequestEntry(op[p].name, op[p].target)))
                  /\ pc' = [pc EXCEPT ![p] = "s_insert"]
                  /\ ret' = ret
    /\ UNCHANGED <<op, ncalls, gate, held, waitQ, IsOverQuota,
                   inodeToPath, nextInode, metaCache, entryVars, cloneVars, runVars>>

\* variant: the cache insert is left out
SymlinkInsert_Skip(p) ==
    /\ pc[p] = "s_insert"
    /\ pc' = [pc EXCEPT ![p] = "s_lookup"]
    /\ UNCHANGED <<op, ncalls, gate, ret, hist, held, waitQ, IsOverQuota,
                   inodeToPath, nextInode, metaCache, filerStore, entryVars, cloneVars, runVars>>

\* line 59: wfs.metaCache.InsertEntry(FromPbEntry(...))
SymlinkInsert(p) ==
    /\ pc[p] = "s_insert"
    /\ metaCache' = InsertEntry(metaCache,
           FromPbEntry(op[p].dir,
               SymlinkRequestEntry(op[p].name, op[p].target)))
    /\ hist' = [q \in Procs |->
                  IF q = p THEN [hist[q] EXCEPT !.inserted = TRUE]
                  ELSE IF hist[q].inserted /\ op[q].path = op[p].path
                  THEN [hist[q] EXCEPT !.overwritten = TRUE]
                  ELSE hist[q]]
    /\ pc' = [pc EXCEPT ![p] = "s_lookup"]
    /\ UNCHANGED <<op, ncalls, gate, ret, held, waitQ, IsOverQuota,
                   inodeToPath, nextInode, filerStore, entryVars, cloneVars, runVars>>

\* variant: Lookup is given dirPath instead of entryFullPath
SymlinkLookup_ParentPath(p) ==
    /\ pc[p] = "s_lookup"
    /\ inodeToPath' = LookupTable(inodeToPath, nextInode, op[p].dir)
    /\ nextInode' = IF IsMapped(inodeToPath, op[p].dir)
                    THEN nextInode ELSE nextInode + 1
    /\ ret' = [ret EXCEPT ![p].code = OK,
                          ![p].inode = LookupInode(inodeToPath, nextInode,
                                                   op[p].dir)]
    /\ hist' = [hist EXCEPT ![p].looked = TRUE]
    /\ pc' = [pc EXCEPT ![p] = "done"]
    /\ UNCHANGED <<op, ncalls, gate, held, waitQ, IsOverQuota,
                   metaCache, filerStore, entryVars, cloneVars, runVars>>

\* lines 68-72: wfs.inodeToPath.Lookup, outputPbEntry, return fuse.OK
SymlinkLookup(p) ==
    /\ pc[p] = "s_lookup"
    /\ inodeToPath' = LookupTable(inodeToPath, nextInode, op[p].path)
    /\ nextInode' = IF IsMapped(inodeToPath, op[p].path)
                    THEN nextInode ELSE nextInode + 1
    /\ ret' = [ret EXCEPT ![p].code = OK,
                          ![p].inode = LookupInode(inodeToPath, nextInode,
                                                   op[p].path)]
    /\ hist' = [hist EXCEPT ![p].looked = TRUE]
    /\ pc' = [pc EXCEPT ![p] = "done"]
    /\ UNCHANGED <<op, ncalls, gate, held, waitQ, IsOverQuota,
                   metaCache, filerStore, entryVars, cloneVars, runVars>>

(***************************************************************************)
(* WFS.Readlink after the limiter.                                         *)
(***************************************************************************)
\* variant: the status of GetPath is replaced by fuse.OK
ReadlinkGetPath_Swallow(p) ==
    /\ pc[p] = "r_getpath"
    /\ hist' = [hist EXCEPT ![p].tableRead = TRUE]
    /\ IF GetPathCode(inodeToPath, op[p].node) # OK
       THEN /\ ret' = [ret EXCEPT ![p].code = OK]
            /\ pc' = [pc EXCEPT ![p] = "done"]
            /\ op' = op
       ELSE /\ op' = [op EXCEPT ![p].path = inodeToPath[op[p].node].path]
            /\ pc' = [pc EXCEPT ![p] = "r_load"]
            /\ ret' = ret
    /\ UNCHANGED <<ncalls, gate, held, waitQ, IsOverQuota,
                   inodeToPath, nextInode, metaCache, filerStore, entryVars, cloneVars, runVars>>

\* lines 78-81
ReadlinkGetPath(p) ==
    /\ pc[p] = "r_getpath"
    /\ hist' = [hist EXCEPT ![p].tableRead = TRUE]
    /\ IF GetPathCode(inodeToPath, op[p].node) # OK
       THEN /\ ret' = [ret EXCEPT
                  ![p].code = GetPathCode(inodeToPath, op[p].node)]
            /\ pc' = [pc EXCEPT ![p] = "done"]
            /\ op' = op
       ELSE /\ op' = [op EXCEPT ![p].path = inodeToPath[op[p].node].path]
            /\ pc' = [pc EXCEPT ![p] = "r_load"]
            /\ ret' = ret
    /\ UNCHANGED <<ncalls, gate, held, waitQ, IsOverQuota,
                   inodeToPath, nextInode, metaCache, filerStore, entryVars, cloneVars, runVars>>

\* variant: the mode is not tested
ReadlinkResult_NoModeTest(e) ==
    [code |-> OK, inode |-> NoInode, out |-> e.Attr.SymlinkTarget]

\* lines 87-91: the result for a loaded entry
ReadlinkResult(e) ==
    IF ~IsSymlinkMode(e.Attr.Mode \cap Uint32Bits)
    THEN [code |-> EINVAL, inode |-> NoInode, out |-> NoBytes]
    ELSE [code |-> OK, inode |-> NoInode, out |-> e.Attr.SymlinkTarget]

\* lines 83-91: wfs.maybeLoadEntry, then the mode test
ReadlinkLoad(p) ==
    /\ pc[p] = "r_load"
    /\ hist' = [hist EXCEPT ![p].cacheRead = TRUE]
    /\ IF op[p].path \in DOMAIN metaCache
       THEN /\ ret' = [ret EXCEPT ![p] = ReadlinkResult(metaCache[op[p].path])]
            /\ metaCache' = metaCache
       ELSE \E outcome \in {"ok", "transport"} :
              IF outcome = "transport"
              THEN /\ ret' = [ret EXCEPT ![p].code = EIO]
                   /\ metaCache' = metaCache
              ELSE IF op[p].path \notin DOMAIN filerStore
              THEN /\ ret' = [ret EXCEPT ![p].code = ENOENT]
                   /\ metaCache' = metaCache
              ELSE /\ ret' = [ret EXCEPT
                         ![p] = ReadlinkResult(filerStore[op[p].path])]
                   /\ metaCache' = InsertEntry(metaCache,
                                               filerStore[op[p].path])
    /\ pc' = [pc EXCEPT ![p] = "done"]
    /\ UNCHANGED <<op, ncalls, gate, held, waitQ, IsOverQuota,
                   inodeToPath, nextInode, filerStore, entryVars, cloneVars, runVars>>

(***************************************************************************)
(* The call has returned to the kernel binding.  Neither function gives    *)
(* anything back to the limiter: there is no release in lines 17-92.       *)
(***************************************************************************)
Return(p) ==
    /\ pc[p] = "done"
    /\ pc' = [pc EXCEPT ![p] = "idle"]
    /\ op' = [op EXCEPT ![p] = NoOp]
    /\ ret' = [ret EXCEPT ![p] = NoRet]
    /\ hist' = [hist EXCEPT ![p] = NoHist]
    /\ gate' = [gate EXCEPT ![p] = "none"]
    /\ UNCHANGED <<ncalls, held, waitQ, IsOverQuota, inodeToPath, nextInode,
                   metaCache, filerStore, entryVars, cloneVars, runVars>>

Next ==
    \/ \E p \in Procs : CallSymlink(p)
    \/ \E p \in Procs : CallReadlink(p)
    \/ \E p \in Procs : WaitAdmitted(p)
    \/ \E p \in Procs : WaitCancelled(p)
    \/ \E p \in Procs : SymlinkCheck(p)
    \/ \E p \in Procs : SymlinkCreateEntry(p)
    \/ \E p \in Procs : SymlinkInsert(p)
    \/ \E p \in Procs : SymlinkLookup(p)
    \/ \E p \in Procs : ReadlinkGetPath(p)
    \/ \E p \in Procs : ReadlinkLoad(p)
    \/ \E p \in Procs : Return(p)

Spec == Init /\ [][Next]_vars

(***************************************************************************)
(* The Entry accessors as operations on one Entry: the specification       *)
(* SpecEntry applies setters and getters, in any order, with arguments     *)
(* from ArgValues.                                                         *)
(***************************************************************************)
ArgValues == {-1, 0, 1023, 1025, 1536}

Setters == {"SetXAttrSize", "SetXAttrSizeQuota", "SetXAttrInodeCount",
            "SetXAttrInodeCountQuota"}

Getters == {"GetXAttrSize", "GetXAttrSizeQuota", "GetXAttrInodeCount",
            "GetXAttrInodeQuota"}

ApplySetter(call, e, b) ==
    CASE call = "SetXAttrSize" -> SetXAttrSize(e, b)
      [] call = "SetXAttrSizeQuota" -> SetXAttrSizeQuota(e, b)
      [] call = "SetXAttrInodeCount" -> SetXAttrInodeCount(e, b)
      [] call = "SetXAttrInodeCountQuota" -> SetXAttrInodeCountQuota(e, b)

ApplyGetter(call, e) ==
    CASE call = "GetXAttrSize" -> GetXAttrSize(e)
      [] call = "GetXAttrSizeQuota" -> GetXAttrSizeQuota(e)
      [] call = "GetXAttrInodeCount" -> GetXAttrInodeCount(e)
      [] call = "GetXAttrInodeQuota" -> GetXAttrInodeQuota(e)

\* the getter that reads the key a setter writes
GetterOf(call) ==
    CASE call = "SetXAttrSize" -> "GetXAttrSize"
      [] call = "SetXAttrSizeQuota" -> "GetXAttrSizeQuota"
      [] call = "SetXAttrInodeCount" -> "GetXAttrInodeCount"
      [] call = "SetXAttrInodeCountQuota" -> "GetXAttrInodeQuota"

InitMountIdle ==
    /\ InitMount
    /\ IsOverQuota = FALSE

\* the key a setter writes and a getter reads
SetterKey(call) ==
    CASE call = "SetXAttrSize" -> XATTR_PREFIX \o Size_Key
      [] call = "SetXAttrSizeQuota" -> XATTR_PREFIX \o Size_Quota_Key
      [] call = "SetXAttrInodeCount" -> XATTR_PREFIX \o Inode_Key
      [] call = "SetXAttrInodeCountQuota" -> XATTR_PREFIX \o Inode_Quota_Key

GetterKey(call) ==
    CASE call = "GetXAttrSize" -> XATTR_PREFIX \o Size_Key
      [] call = "GetXAttrSizeQuota" -> XATTR_PREFIX \o Size_Quota_Key
      [] call = "GetXAttrInodeCount" -> XATTR_PREFIX \o Inode_Key
      [] call = "GetXAttrInodeQuota" -> XATTR_PREFIX \o Inode_Quota_Key

ReservedKeys ==
    {XATTR_PREFIX \o Size_Key, XATTR_PREFIX \o Size_Quota_Key,
     XATTR_PREFIX \o Inode_Key, XATTR_PREFIX \o Inode_Quota_Key}

\* byte strings no setter writes: no bytes, no number, a negative decimal, a
\* decimal out of range
BadTexts ==
    {EmptyText, Text("junk", 0, 0), Text("dec", -5, 0), Text("decbig", 0, 0)}

\* a directory Entry that holds t under every reserved key
StoredEntry(t) ==
    [DirEntry(DirPath) EXCEPT
        !.Extended = [nil |-> FALSE, m |-> [k \in ReservedKeys |-> t]]]

\* a directory Entry with an extended attribute of the user
UserXattrEntry ==
    [DirEntry(DirPath) EXCEPT
        !.Extended = [nil |-> FALSE,
                      m |-> [k \in {"user.note"} |-> Text("junk", 0, 0)]]]

EntryInputs ==
    {ZeroEntry, DirEntry(DirPath), UserXattrEntry}
        \cup {StoredEntry(t) : t \in BadTexts}

InitEntry ==
    /\ InitMountIdle
    /\ entry \in EntryInputs
    /\ last = [call |-> "none", arg |-> 0, result |-> 0]
    /\ InitCloneIdle
    /\ InitRunIdle

CallSetter ==
    /\ \E call \in Setters, b \in ArgValues :
          /\ entry' = ApplySetter(call, entry, b)
          /\ last' = [call |-> call, arg |-> b, result |-> 0]
    /\ UNCHANGED <<mountVars, cloneVars, runVars>>

CallGetter ==
    /\ \E call \in Getters :
          last' = [call |-> call, arg |-> 0,
                   result |-> ApplyGetter(call, entry)]
    /\ entry' = entry
    /\ UNCHANGED <<mountVars, cloneVars, runVars>>

NextEntry == CallSetter \/ CallGetter

SpecEntry == InitEntry /\ [][NextEntry]_vars

(***************************************************************************)
(* Size and the conversion to and from filer_pb.Entry, on Entries that     *)
(* differ in every field the conversion carries.                           *)
(***************************************************************************)
\* variant: the first argument wins
maxUint64_First(x, y) == x

maxUint64(x, y) == IF x > y THEN x ELSE y

RECURSIVE TotalSize(_)
\* the bytes of a chunk list: the sum of the chunk sizes
TotalSize(chunks) ==
    IF Len(chunks) = 0 THEN 0
    ELSE Head(chunks).Size + TotalSize(Tail(chunks))

Size(e) ==
    maxUint64(maxUint64(TotalSize(e.Chunks), e.Attr.FileSize), Len(e.Content))

\* util.FullPath.DirAndName: the directory of a path
PathDir(path) ==
    IF Len(path) = 0 THEN RootPath ELSE SubSeq(path, 1, Len(path) - 1)

\* Attr -> filer_pb.FuseAttributes
EntryAttributeToPb(e) ==
    [Mtime |-> e.Attr.Mtime, Crtime |-> e.Attr.Crtime,
     FileMode |-> e.Attr.Mode \cap Uint32Bits,
     Uid |-> e.Attr.Uid, Gid |-> e.Attr.Gid, FileSize |-> e.Attr.FileSize,
     SymlinkTarget |-> e.Attr.SymlinkTarget]

\* &filer_pb.Entry{}
EmptyMessage ==
    [Name |-> "", IsDirectory |-> FALSE,
     Attributes |-> [Mtime |-> 0, Crtime |-> 0, FileMode |-> {},
                     Uid |-> 0, Gid |-> 0, FileSize |-> 0,
                     SymlinkTarget |-> ""],
     Chunks |-> << >>, Extended |-> NilExtended, HardLinkId |-> << >>,
     HardLinkCounter |-> 0, Content |-> << >>, RemoteEntry |-> NilRemote,
     Quota |-> 0]

\* variant: the quota counter is not carried
ToExistingProtoEntry_NoQuota(e, message) ==
    [message EXCEPT !.IsDirectory = IsDirectory(e.Attr),
                    !.Attributes = EntryAttributeToPb(e),
                    !.Chunks = e.Chunks,
                    !.Extended = e.Extended,
                    !.HardLinkId = e.HardLinkId,
                    !.HardLinkCounter = e.HardLinkCounter,
                    !.Content = e.Content,
                    !.RemoteEntry = e.Remote]

ToExistingProtoEntry(e, message) ==
    [message EXCEPT !.IsDirectory = IsDirectory(e.Attr),
                    !.Attributes = EntryAttributeToPb(e),
                    !.Chunks = e.Chunks,
                    !.Extended = e.Extended,
                    !.HardLinkId = e.HardLinkId,
                    !.HardLinkCounter = e.HardLinkCounter,
                    !.Content = e.Content,
                    !.RemoteEntry = e.Remote,
                    !.Quota = e.Quota]

ToProtoEntry(e) ==
    ToExistingProtoEntry(e, [EmptyMessage EXCEPT !.Name = PathName(e.FullPath)])

CodecPaths == {DirPath, Child(DirPath, "a")}

CodecDirs == {RootPath, DirPath}

CodecModes == {ModePerm, ModeDir \cup ModePerm}

CodecChunks ==
    {<< >>, <<[Offset |-> 0, Size |-> 8]>>,
     <<[Offset |-> 0, Size |-> 8], [Offset |-> 8, Size |-> 4]>>}

CodecFileSizes == {0, 5, 100}

CodecContents == {<< >>, <<1, 2, 3>>}

CodecHardLinks == {[id |-> << >>, counter |-> 0], [id |-> <<7>>, counter |-> 2]}

CodecRemotes == {NilRemote, "remote1"}

CodecQuotas == {0, 9}

CodecExtended == {NilExtended, UserXattrEntry.Extended}

CodecEntries ==
    {[ZeroEntry EXCEPT !.FullPath = path, !.Attr.Mode = mode,
                       !.Attr.FileSize = size, !.Chunks = chunks,
                       !.Content = content, !.HardLinkId = link.id,
                       !.HardLinkCounter = link.counter, !.Remote = remote,
                       !.Quota = quota, !.Extended = extended] :
        path \in CodecPaths, mode \in CodecModes, size \in CodecFileSizes,
        chunks \in CodecChunks, content \in CodecContents,
        link \in CodecHardLinks, remote \in CodecRemotes,
        quota \in CodecQuotas, extended \in CodecExtended}

InitCodec ==
    /\ InitMountIdle
    /\ entry \in CodecEntries
    /\ last = [call |-> "none", arg |-> 0, result |-> 0]
    /\ InitCloneIdle
    /\ InitRunIdle

CallSize ==
    /\ last' = [call |-> "Size", arg |-> 0, result |-> Size(entry)]
    /\ entry' = entry
    /\ UNCHANGED <<mountVars, cloneVars, runVars>>

CallToProtoEntry ==
    /\ last' = [call |-> "ToProtoEntry", arg |-> 0,
                result |-> ToProtoEntry(entry)]
    /\ entry' = entry
    /\ UNCHANGED <<mountVars, cloneVars, runVars>>

\* the message of the last ToProtoEntry is read back under directory dir;
\* last keeps the Entry the message was made from
CallFromPbEntry ==
    /\ last.call = "ToProtoEntry"
    /\ \E dir \in CodecDirs :
          /\ entry' = FromPbEntry(dir, last.result)
          /\ last' = [call |-> "FromPbEntry", arg |-> dir, result |-> entry]
    /\ UNCHANGED <<mountVars, cloneVars, runVars>>

NextCodec == CallSize \/ CallToProtoEntry \/ CallFromPbEntry

SpecCodec == InitCodec /\ [][NextCodec]_vars

(***************************************************************************)
(* ShallowClone.  A slice or a map is a reference to a backing store: the  *)
(* Entry holds the address, heap holds the store.  Assigning a struct      *)
(* copies the addresses it holds.                                          *)
(***************************************************************************)
NilRef == "nil"

Other(who) == IF who = "orig" THEN "clone" ELSE "orig"

\* an Entry with chunks, extended attributes and content, and with the
\* attribute slices g and m
HeapEntry(g, m) ==
    [ZeroEntry EXCEPT !.FullPath = DirPath,
                      !.Attr.Mode = ModePerm,
                      !.Attr.GroupNames = g,
                      !.Attr.Md5 = m,
                      !.Chunks = "chunks",
                      !.Extended = "extended",
                      !.Content = "content"]

HeapInit ==
    [a \in {"chunks", "extended", "content", "groups", "md5"} |->
        CASE a = "chunks" -> <<8>>
          [] a = "extended" -> [k \in {"user.note"} |-> 1]
          [] a = "content" -> <<1>>
          [] a = "groups" -> <<"staff">>
          [] a = "md5" -> <<1>>]

ShallowClone(e) ==
    [ZeroEntry EXCEPT !.FullPath = e.FullPath,
                      !.Attr = e.Attr,
                      !.Chunks = e.Chunks,
                      !.Extended = e.Extended,
                      !.HardLinkId = e.HardLinkId,
                      !.HardLinkCounter = e.HardLinkCounter,
                      !.Content = e.Content,
                      !.Remote = e.Remote,
                      !.Quota = e.Quota]

AttrFields == {"Mode", "GroupNames", "Md5"}

SliceAttrFields == {"GroupNames", "Md5"}

SharedFields == {"Chunks", "Extended", "Content"}

\* the values a caller assigns to an attribute field
AttrValues(field) ==
    CASE field = "Mode" -> {ModePerm, ModeDir \cup ModePerm}
      [] field = "GroupNames" -> {NilRef}
      [] field = "Md5" -> {NilRef}

\* the values a caller stores into an element
ElemValues(field) ==
    IF field = "GroupNames" THEN {"staff", "wheel"} ELSE {1, 9}

InitClone ==
    /\ InitMountIdle
    /\ InitEntryIdle
    /\ InitRunIdle
    /\ heap = HeapInit
    /\ \E g \in {NilRef, "groups"}, m \in {NilRef, "md5"} :
          ents = [orig |-> HeapEntry(g, m), clone |-> ZeroEntry,
                  cloned |-> FALSE]
    /\ mut = NoMut

CallShallowClone ==
    /\ ~ents.cloned
    /\ ents' = [ents EXCEPT !.clone = ShallowClone(ents.orig),
                            !.cloned = TRUE]
    /\ mut' = [kind |-> "ShallowClone", who |-> "orig", field |-> ""]
    /\ UNCHANGED <<heap, mountVars, entryVars, runVars>>

\* e.<field> = v on the original or on the clone
AssignAttr ==
    /\ ents.cloned
    /\ \E who \in {"orig", "clone"}, field \in AttrFields :
          \E v \in AttrValues(field) :
              /\ ents' = [ents EXCEPT ![who].Attr[field] = v]
              /\ mut' = [kind |-> "AssignAttr", who |-> who, field |-> field]
    /\ UNCHANGED <<heap, mountVars, entryVars, runVars>>

\* e.GroupNames[i] = v, e.Md5[i] = v
SetAttrElement ==
    /\ ents.cloned
    /\ \E who \in {"orig", "clone"}, field \in SliceAttrFields :
          /\ ents[who].Attr[field] # NilRef
          /\ \E i \in DOMAIN heap[ents[who].Attr[field]],
                v \in ElemValues(field) :
                heap' = [heap EXCEPT ![ents[who].Attr[field]][i] = v]
          /\ mut' = [kind |-> "SetAttrElement", who |-> who, field |-> field]
    /\ UNCHANGED <<ents, mountVars, entryVars, runVars>>

\* e.Chunks[i] = v, e.Extended[k] = v, e.Content[i] = v
SetSharedElement ==
    /\ ents.cloned
    /\ \E who \in {"orig", "clone"}, field \in SharedFields :
          /\ \E i \in DOMAIN heap[ents[who][field]], v \in ElemValues(field) :
                heap' = [heap EXCEPT ![ents[who][field]][i] = v]
          /\ mut' = [kind |-> "SetSharedElement", who |-> who, field |-> field]
    /\ UNCHANGED <<ents, mountVars, entryVars, runVars>>

NextClone ==
    CallShallowClone \/ AssignAttr \/ SetAttrElement \/ SetSharedElement

SpecClone == InitClone /\ [][NextClone]_vars

(***************************************************************************)
(* RunMount from the filer-connection loop to server.Serve().              *)
(***************************************************************************)
MaxAttempts == 10

InitRunMount ==
    /\ InitMountIdle
    /\ InitEntryIdle
    /\ InitCloneIdle
    /\ run = [NoRun EXCEPT !.pc = "for"]

\* line 109: i < 10
LoopTest ==
    /\ run.pc = "for"
    /\ run' = [run EXCEPT !.pc = IF run.i < MaxAttempts THEN "call"
                                 ELSE "after"]
    /\ UNCHANGED <<mountVars, entryVars, cloneVars>>

\* lines 110-117: one GetFilerConfiguration; err is assigned on every
\* attempt, cipher only when the attempt succeeds
Attempt ==
    /\ run.pc = "call"
    /\ \E failed \in BOOLEAN, respCipher \in BOOLEAN :
          run' = [run EXCEPT
                    !.err = failed,
                    !.cipher = IF failed THEN run.cipher ELSE respCipher,
                    !.attempts = run.attempts + 1,
                    !.firstOk = IF ~failed /\ run.firstOk = 0
                                THEN run.attempts + 1 ELSE run.firstOk,
                    !.pc = IF failed THEN "sleep" ELSE "next"]
    /\ UNCHANGED <<mountVars, entryVars, cloneVars>>

\* lines 118-122: time.Sleep after a failed attempt
Sleep ==
    /\ run.pc = "sleep"
    /\ run' = [run EXCEPT !.pc = "next"]
    /\ UNCHANGED <<mountVars, entryVars, cloneVars>>

\* line 109: i++
Increment ==
    /\ run.pc = "next"
    /\ run' = [run EXCEPT !.i = run.i + 1, !.pc = "for"]
    /\ UNCHANGED <<mountVars, entryVars, cloneVars>>

\* lines 124-127: err of the last attempt decides
AfterLoop ==
    /\ run.pc = "after"
    /\ run' = IF run.err
              THEN [run EXCEPT !.pc = "done", !.result = "no filer"]
              ELSE [run EXCEPT !.pc = "resolve"]
    /\ UNCHANGED <<mountVars, entryVars, cloneVars>>

\* lines 130-134: util.ResolvePath(*option.dir)
ResolvePath ==
    /\ run.pc = "resolve"
    /\ \E dir \in {"", "/mnt"} :
          run' = IF dir = ""
                 THEN [run EXCEPT !.pc = "done", !.result = "no dir"]
                 ELSE [run EXCEPT !.pc = "unmount"]
    /\ UNCHANGED <<mountVars, entryVars, cloneVars>>

\* line 136: unmount.Unmount(dir)
Unmount ==
    /\ run.pc = "unmount"
    /\ run' = [run EXCEPT !.unmounted = TRUE, !.pc = "mount"]
    /\ UNCHANGED <<mountVars, entryVars, cloneVars>>

\* lines 138-302: the socket, the file system and the fuse server; each of
\* them can fail and end RunMount
Mount ==
    /\ run.pc = "mount"
    /\ \E ok \in BOOLEAN :
          run' = IF ok
                 THEN [run EXCEPT !.served = TRUE, !.pc = "done",
                                  !.result = "served"]
                 ELSE [run EXCEPT !.pc = "done", !.result = "mount failed"]
    /\ UNCHANGED <<mountVars, entryVars, cloneVars>>

NextRunMount ==
    \/ LoopTest
    \/ Attempt
    \/ Sleep
    \/ Increment
    \/ AfterLoop
    \/ ResolvePath
    \/ Unmount
    \/ Mount

SpecRunMount == InitRunMount /\ [][NextRunMount]_vars

(***************************************************************************)
(* The same calls when no cancel signal ever fires, under fair scheduling  *)
(* of every admitted or waiting call: goroutines that can run do run, and  *)
(* every remote round trip returns.                                        *)
(***************************************************************************)
StepFair(p) ==
    \/ WaitAdmitted(p)
    \/ SymlinkCheck(p)
    \/ SymlinkCreateEntry(p)
    \/ SymlinkInsert(p)
    \/ SymlinkLookup(p)
    \/ ReadlinkGetPath(p)
    \/ ReadlinkLoad(p)
    \/ Return(p)

NextFair ==
    \/ \E p \in Procs : CallSymlink(p)
    \/ \E p \in Procs : CallReadlink(p)
    \/ \E p \in Procs : StepFair(p)

FairSpec == Init /\ [][NextFair]_vars /\ \A p \in Procs : WF_vars(StepFair(p))

(***************************************************************************)
(* Properties.                                                             *)
(***************************************************************************)
IsSymlinkCall(p) == op[p].kind = "Symlink"

IsReadlinkCall(p) == op[p].kind = "Readlink"

Returned(p) == pc[p] = "done"

SymlinkOK(p) == IsSymlinkCall(p) /\ Returned(p) /\ ret[p].code = OK

\* what a Readlink on an inode returns in the current state when the entry
\* of its path is cached
ReadlinkNow(inode) ==
    IF ~HasPath(inodeToPath, inode) THEN [code |-> ENOENT, out |-> NoBytes]
    ELSE IF inodeToPath[inode].path \notin DOMAIN metaCache
    THEN [code |-> "miss", out |-> NoBytes]
    ELSE [code |-> ReadlinkResult(metaCache[inodeToPath[inode].path]).code,
          out |-> ReadlinkResult(metaCache[inodeToPath[inode].path]).out]

LinkInstalled(p) ==
    /\ op[p].path = Child(inodeToPath[op[p].node].path, op[p].name)
    /\ op[p].path \in DOMAIN metaCache
    /\ IsSymlinkMode(metaCache[op[p].path].Attr.Mode)
    /\ HasPath(inodeToPath, ret[p].inode)
    /\ inodeToPath[ret[p].inode].path = op[p].path

LinkReadsBack(p) ==
    /\ metaCache[op[p].path].Attr.SymlinkTarget = op[p].target
    /\ ReadlinkNow(ret[p].inode) = [code |-> OK, out |-> op[p].target]

\* C1 as stated: whenever Symlink(parent, T, N) has returned OK, the cache
\* holds at D/N a symlink entry with target T, the returned inode maps to
\* D/N, and Readlink on that inode returns OK with T.  It is stated for the
\* states in which every call in flight was admitted by the limiter, so that
\* a violation does not rest on a call that went on after its cancellation.
NoneCancelled == \A q \in Procs : gate[q] # "cancelled"

C1_Original ==
    \A p \in Procs :
        SymlinkOK(p) /\ NoneCancelled => LinkInstalled(p) /\ LinkReadsBack(p)

\* C1 (amended): whenever Symlink(parent, T, N) has returned OK and no other
\* operation has inserted at D/N since this call's cache insert, the cache
\* holds at D/N an entry with the symlink bit set and SymlinkTarget T, the
\* returned inode maps to D/N, and Readlink on that inode returns OK with T.
C1_SymlinkThenReadlink ==
    \A p \in Procs :
        SymlinkOK(p) /\ ~hist[p].overwritten =>
            LinkInstalled(p) /\ LinkReadsBack(p)

C1_Witness ==
    \E p \in Procs :
        /\ SymlinkOK(p)
        /\ ~hist[p].overwritten
        /\ op[p].node = DirInode
        /\ op[p].target = "/dir/target"
        /\ ReadlinkNow(ret[p].inode).out = "/dir/target"

\* C2 as stated: the capacity held equals the number of calls admitted and
\* not yet returned.
C2_HeldEqualsInFlight ==
    held = Cardinality({p \in Procs : gate[p] = "admitted" /\ ~Returned(p)})

\* C3 as stated: a call whose cancel signal fired at the admission gate has
\* no side effect: a Symlink issues no CreateEntry, inserts nothing and
\* looks up no inode; a Readlink reads neither the inode table nor the cache;
\* and the call does not succeed.
C3_CancelledHasNoEffect ==
    \A p \in Procs :
        gate[p] = "cancelled" =>
            /\ hist[p].created = 0
            /\ ~hist[p].inserted
            /\ ~hist[p].looked
            /\ IsReadlinkCall(p) => ~hist[p].tableRead /\ ~hist[p].cacheRead
            /\ Returned(p) => ret[p].code # OK

\* C4 as stated: when no cancel signal fires and every remote call returns,
\* every call that waits at the admission gate eventually returns.
C4_EveryCallReturns ==
    \A p \in Procs : (pc[p] \in {"s_wait", "r_wait"}) ~> Returned(p)

NoSymlinkEffect(p) ==
    /\ hist[p].created = 0
    /\ ~hist[p].inserted
    /\ ~hist[p].looked

InvalidNameCall(p) == IsSymlinkCall(p) /\ checkName(op[p].name) # OK

\* C5 as stated: in every state of the mount, over quota or not, a Symlink
\* with an invalid name returns the invalid-argument status, attempts no
\* remote call and changes neither the cache nor the inode table.
C5_Original ==
    \A p \in Procs :
        InvalidNameCall(p) =>
            /\ NoSymlinkEffect(p)
            /\ Returned(p) => ret[p].code = EINVAL

\* C5 (amended): in every state of the mount a Symlink with an invalid name
\* attempts no remote call and changes neither the cache nor the inode
\* table; it returns the invalid-argument status when the mount is not over
\* quota, and the out-of-space status when it is.
C5_InvalidNameRejected ==
    \A p \in Procs :
        InvalidNameCall(p) =>
            /\ NoSymlinkEffect(p)
            /\ pc[p] \in {"s_wait", "s_check", "done"}
            /\ Returned(p) =>
                  ret[p].code = IF hist[p].overQuota THEN ENOSPC ELSE EINVAL

C5_Witness ==
    \E p \in Procs :
        /\ InvalidNameCall(p)
        /\ Returned(p)
        /\ ~IsOverQuota
        /\ op[p].node = StaleInode
        /\ ret[p].code = EINVAL

\* C6: a Symlink that finds the mount over quota returns ENOSPC, issues no
\* remote CreateEntry and changes neither the cache nor the inode table.
C6_OverQuotaIsENOSPC ==
    \A p \in Procs :
        IsSymlinkCall(p) /\ IsOverQuota =>
            /\ NoSymlinkEffect(p)
            /\ pc[p] \in {"s_wait", "s_check", "done"}
            /\ Returned(p) => ret[p].code = ENOSPC /\ hist[p].overQuota

C6_Witness ==
    \E p \in Procs :
        /\ IsSymlinkCall(p)
        /\ IsOverQuota
        /\ Returned(p)
        /\ checkName(op[p].name) = OK
        /\ HasPath(inodeToPath, op[p].node)
        /\ ret[p].code = ENOSPC

\* C7 as stated: the quota check comes before the remote CreateEntry, a
\* Symlink that has returned OK has left the quota root's inode counter
\* higher than it was at the quota check, and a Symlink whose remote create
\* failed has not raised it.
C7_CounterFollowsCommit ==
    \A p \in Procs :
        IsSymlinkCall(p) =>
            /\ hist[p].created > 0 => ~hist[p].overQuota
            /\ SymlinkOK(p) => QuotaInodeCount >= hist[p].inodes0 + 1
            /\ Returned(p) /\ hist[p].failed \notin {"none", "ok"} =>
                  QuotaInodeCount = hist[p].inodes0

TransportFailed(p) == IsSymlinkCall(p) /\ hist[p].failed = "transport"

\* C8: a Symlink whose remote CreateEntry failed with a transport failure
\* has returned EIO after that single attempt with no inode, has inserted
\* nothing into the cache and has looked up (allocated or referenced) no
\* inode.
C8_TransportFailureIsEIO ==
    \A p \in Procs :
        TransportFailed(p) =>
            /\ Returned(p)
            /\ ret[p].code = EIO
            /\ ret[p].inode = NoInode
            /\ hist[p].created = 1
            /\ ~hist[p].inserted
            /\ ~hist[p].looked

C8_Witness ==
    \E p \in Procs :
        /\ TransportFailed(p)
        /\ Returned(p)
        /\ ret[p].code = EIO
        /\ op[p].path \notin DOMAIN metaCache
        /\ ~IsMapped(inodeToPath, op[p].path)

\* the specific status of a semantic failure of the filer
SemanticStatus(outcome) ==
    IF outcome = QuotaErrorPrefix THEN ENOSPC ELSE ENOENT

\* C9 as stated: a Symlink whose remote CreateEntry failed with a semantic
\* failure (a quota error of the filer, path not found) returns the
\* corresponding status (out-of-space, not-found), never EIO.
C9_SemanticFailureIsSpecific ==
    \A p \in Procs :
        /\ IsSymlinkCall(p)
        /\ Returned(p)
        /\ hist[p].failed \in {QuotaErrorPrefix, "notfound"}
        => /\ ret[p].code = SemanticStatus(hist[p].failed)
           /\ ret[p].code # EIO

\* C10 as stated: after any of the four setters was called with b, the
\* getter of the same key returns max(b, 0).
C10_SetThenGet ==
    last.call \in Setters =>
        ApplyGetter(GetterOf(last.call), entry) = U64(Clamp(last.arg))

(***************************************************************************)
(* Properties of the inode table and of the order of the steps.            *)
(***************************************************************************)
\* no path has two inode numbers in the table
PathsHaveOneInode ==
    \A i, j \in DOMAIN inodeToPath :
        i # j => inodeToPath[i].path # inodeToPath[j].path

\* C15: in every state reached by interleaved Symlink calls, no two live
\* inodes stand for one path and every inode returned with OK maps to the
\* path of its call, so two calls that returned OK have the same inode
\* exactly when they have the same path.
C15_InodesUnique ==
    /\ PathsHaveOneInode
    /\ \A p \in Procs :
          SymlinkOK(p) =>
              /\ HasPath(inodeToPath, ret[p].inode)
              /\ inodeToPath[ret[p].inode].path = op[p].path
    /\ \A p, q \in Procs :
          SymlinkOK(p) /\ SymlinkOK(q) =>
              (op[p].path = op[q].path <=> ret[p].inode = ret[q].inode)

C15_Witness ==
    \E p, q \in Procs :
        /\ p # q
        /\ SymlinkOK(p) /\ SymlinkOK(q)
        /\ op[p].path = op[q].path
        /\ op[p].target # op[q].target
        /\ ret[p].inode = ret[q].inode
        /\ \E i \in DOMAIN inodeToPath :
              i >= FirstFreeInode /\ inodeToPath[i].path # op[p].path

StaleCall(p) == op[p].kind # "none" /\ ~HasPath(inodeToPath, op[p].node)

\* C16 as stated: a Symlink with a parent inode that has no live mapping and
\* a Readlink with an inode that has no live mapping return EIO, issue no
\* remote call and change neither the cache nor the inode table.
C16_Original ==
    \A p \in Procs :
        StaleCall(p) =>
            /\ NoSymlinkEffect(p)
            /\ ~hist[p].cacheRead
            /\ Returned(p) => ret[p].code = EIO

\* C16 (amended): a Symlink with a parent inode that has no live mapping and
\* a Readlink with an inode that has no live mapping never succeed, issue no
\* remote call and change neither the cache nor the inode table; Readlink
\* returns the not-found status of GetPath, and so does Symlink unless the
\* mount is over quota (ENOSPC) or the name is invalid (invalid argument).
C16_StaleInodeFails ==
    \A p \in Procs :
        StaleCall(p) =>
            /\ NoSymlinkEffect(p)
            /\ ~hist[p].cacheRead
            /\ pc[p] \in {"s_wait", "s_check", "r_wait", "r_getpath", "done"}
            /\ Returned(p) =>
                  /\ ret[p].inode = NoInode /\ ret[p].out = NoBytes
                  /\ ret[p].code =
                        IF IsReadlinkCall(p) THEN ENOENT
                        ELSE IF hist[p].overQuota THEN ENOSPC
                        ELSE IF checkName(op[p].name) # OK THEN EINVAL
                        ELSE ENOENT

C16_Witness ==
    \E p, q \in Procs :
        /\ IsSymlinkCall(p) /\ StaleCall(p) /\ Returned(p)
        /\ checkName(op[p].name) = OK
        /\ ret[p].code = ENOENT
        /\ IsReadlinkCall(q) /\ StaleCall(q) /\ Returned(q)
        /\ ret[q].code = ENOENT

\* the inodes that Symlink calls have been given
LinkInodes == {i \in DOMAIN inodeToPath : i >= FirstFreeInode}

\* C17: within a Symlink call the remote CreateEntry comes before the cache
\* insert and the cache insert before the inode-table Lookup; so every inode
\* a Symlink has been given maps to a path the filer holds and for which
\* the cache insert was issued.
C17_CreateInsertLookup ==
    /\ \A p \in Procs :
          IsSymlinkCall(p) =>
              /\ hist[p].looked => hist[p].inserted
              /\ hist[p].inserted =>
                    hist[p].created = 1 /\ hist[p].failed = "ok"
              /\ SymlinkOK(p) => hist[p].looked
    /\ \A i \in LinkInodes :
          /\ inodeToPath[i].path \in DOMAIN filerStore
          /\ inodeToPath[i].path \in DOMAIN metaCache

C17_Witness ==
    \E p \in Procs :
        /\ SymlinkOK(p)
        /\ ret[p].inode \in LinkInodes
        /\ op[p].path \in DOMAIN filerStore
        /\ op[p].path \in DOMAIN metaCache

\* p takes a step of Readlink after the limiter
ReadlinkStep(p) ==
    pc[p] \in {"r_getpath", "r_load"} /\ pc'[p] # pc[p]

\* the step loaded an entry for p's path
Loaded(p) ==
    /\ pc[p] = "r_load"
    /\ pc'[p] = "done"
    /\ ret'[p].code \notin {EIO, ENOENT}

\* C18: a Readlink that loads an entry without the symlink mode bit returns
\* EINVAL with no bytes, and no step of Readlink changes the inode table
\* (its mappings, its reference counts, its next number).
C18_ReadlinkNonSymlink ==
    [][\A p \in Procs :
          ReadlinkStep(p) =>
              /\ inodeToPath' = inodeToPath
              /\ nextInode' = nextInode
              /\ Loaded(p) /\ ~IsSymlinkMode(metaCache'[op[p].path].Attr.Mode)
                    => ret'[p].code = EINVAL /\ ret'[p].out = NoBytes]_vars

C18_Witness ==
    \E p \in Procs :
        /\ IsReadlinkCall(p)
        /\ Returned(p)
        /\ op[p].node = DirInode
        /\ ret[p].code = EINVAL
        /\ ret[p].out = NoBytes
        /\ inodeToPath[DirInode].refs = 1

BadStored(t) ==
    \/ t.fmt \in {"empty", "junk", "decbig"}
    \/ t.fmt = "dec" /\ t.num < 0

ExtendedMap(e) == IF e.Extended.nil THEN << >> ELSE e.Extended.m

\* C19: a setter step changes only the reserved key of the setter: the
\* mapping is non-nil afterwards, holds the keys it held and that key, every
\* other key keeps its value and every other field of the Entry is as before
\* (so a nil mapping becomes a mapping with exactly that key).
C19_SetterFrame ==
    [][last'.call \in Setters =>
          /\ ~entry'.Extended.nil
          /\ DOMAIN entry'.Extended.m =
                DOMAIN ExtendedMap(entry) \cup {SetterKey(last'.call)}
          /\ \A k \in DOMAIN ExtendedMap(entry) \ {SetterKey(last'.call)} :
                entry'.Extended.m[k] = ExtendedMap(entry)[k]
          /\ [entry' EXCEPT !.Extended = entry.Extended] = entry]_vars

C19_Witness ==
    /\ last.call = "SetXAttrInodeCount"
    /\ last.arg = 1025
    /\ DOMAIN entry.Extended.m = {"user.note", XATTR_PREFIX \o Inode_Key}
    /\ entry.Extended.m["user.note"] = Text("junk", 0, 0)
    /\ IsDirectory(entry.Attr)

\* C11: Size() is the largest of the total size of the chunk list, the
\* declared FileSize and the length of the inline Content, and a call of
\* Size() leaves the Entry as it was.
C11_SizeIsMax ==
    [][last'.call = "Size" =>
          /\ entry' = entry
          /\ last'.result \in {TotalSize(entry.Chunks), entry.Attr.FileSize,
                               Len(entry.Content)}
          /\ last'.result >= TotalSize(entry.Chunks)
          /\ last'.result >= entry.Attr.FileSize
          /\ last'.result >= Len(entry.Content)]_vars

C11_Witness ==
    /\ last.call = "Size"
    /\ last.result = 12
    /\ TotalSize(entry.Chunks) = 12
    /\ entry.Attr.FileSize = 5
    /\ Len(entry.Content) = 3

\* C14: an Entry e with directory d and name n, turned into a message by
\* ToProtoEntry and read back by FromPbEntry(d, message), has the full path
\* of e and the HardLinkId, HardLinkCounter, Remote, Quota, Chunks, Extended
\* and Content of e.
C14_ProtoRoundTrip ==
    last.call = "FromPbEntry" /\ last.arg = PathDir(last.result.FullPath)
        => /\ entry.FullPath = last.result.FullPath
           /\ entry.HardLinkId = last.result.HardLinkId
           /\ entry.HardLinkCounter = last.result.HardLinkCounter
           /\ entry.Remote = last.result.Remote
           /\ entry.Quota = last.result.Quota
           /\ entry.Chunks = last.result.Chunks
           /\ entry.Extended = last.result.Extended
           /\ entry.Content = last.result.Content

C14_Witness ==
    /\ last.call = "FromPbEntry"
    /\ last.arg = PathDir(last.result.FullPath)
    /\ entry.FullPath = Child(DirPath, "a")
    /\ entry.Quota = 9
    /\ entry.Remote = "remote1"
    /\ entry.HardLinkCounter = 2
    /\ Len(entry.Chunks) = 2
    /\ ~entry.Extended.nil
    /\ Len(entry.Content) = 3

\* what a reader sees through the attributes of e: the fields, and the
\* elements behind the attribute slices
Deref(h, ref) == IF ref = NilRef THEN << >> ELSE h[ref]

AttrView(h, e) ==
    [e.Attr EXCEPT !.GroupNames = Deref(h, e.Attr.GroupNames),
                   !.Md5 = Deref(h, e.Attr.Md5)]

\* C13 as stated: ShallowClone leaves the original as it was and gives an
\* Entry with the original's chunk list, extended-attribute mapping and
\* content buffer (the same references), and no later write to an attribute
\* of one of the two, an element of GroupNames or Md5 included, changes what
\* is read through the attributes of the other.
C13_CloneAttrIndependent ==
    [][/\ mut'.kind = "ShallowClone" =>
            /\ ents'.orig = ents.orig
            /\ ents'.clone.Chunks = ents.orig.Chunks
            /\ ents'.clone.Extended = ents.orig.Extended
            /\ ents'.clone.Content = ents.orig.Content
       /\ mut'.kind \in {"AssignAttr", "SetAttrElement"} =>
            AttrView(heap', ents'[Other(mut'.who)])
                = AttrView(heap, ents[Other(mut'.who)])]_vars

\* C20 as stated: the connection loop makes at most 10 attempts, makes none
\* after the first attempt that succeeded, and RunMount ends for want of a
\* filer only when no attempt succeeded.
C20_RetryUntilSuccess ==
    /\ run.attempts <= MaxAttempts
    /\ run.firstOk # 0 => run.attempts = run.firstOk
    /\ run.result = "no filer" => run.firstOk = 0 /\ ~run.unmounted

====
